---------------------------- MODULE Spec2Model ----------------------------
(***************************************************************************)
(* pkgbump (src/src/main.rs): bump a PKGBUILD to a new version.            *)
(*                                                                         *)
(* Text is modelled as a sequence of one-character strings, bytes as       *)
(* numbers in 0..255.  Two specifications are given:                       *)
(*   Spec     the whole run of main()/run(), one action per fallible step, *)
(*            the environment (file system, child shell, HTTP server)      *)
(*            choosing every outcome;                                      *)
(*   SetSpec  Pkgbuild::set applied to recipes drawn from a bounded set.   *)
(***************************************************************************)
EXTENDS Naturals, Sequences, FiniteSets

VARIABLES
    pc,             \* position of the single thread in main()/run()
    new_version,    \* Opt.new_version
    content,        \* Pkgbuild.content
    orig,           \* the text Pkgbuild::new read from disk (history)
    setLog,         \* the calls of Pkgbuild::set so far, in order (history)
    script,         \* the temporary helper script of ExtractPkgbuild
    child,          \* the child shell process
    childStatus,    \* exit status of the child, NoStatus before it exits
    metadata,       \* the decoded Metadata, NoMetadata before
    digests,        \* Vec<Box<dyn DynDigest>>: what each engine has absorbed
    digest_hashes,  \* Vec<Vec<String>>
    idx,            \* index in metadata.sources of the source being fetched
    requests,       \* the URLs requested so far, in order (history)
    fs,             \* the files of the working directory written by run()
    buf,            \* the 8 KiB read buffer of the current source
    body,           \* the bytes the current response has yielded (history)
    bodies,         \* the bodies of the sources fetched to end-of-stream
    interrupts,     \* Interrupted reads on the current response (history)
    hidx,           \* index in metadata.hashes of the checksum field being set
    failedAt,       \* index of the source whose fetch failed, 0 if none
    err,            \* the io::Error run() returned or the panic message
    childStdout,    \* what the child wrote on its standard output
    stdout,         \* what was printed on standard output
    stderr,         \* what was printed on standard error
    exitCode        \* the process exit code, Running before exit

vars == <<pc, new_version, content, orig, setLog, script, child, childStatus,
          metadata, digests, digest_hashes, idx, requests, fs, buf, body,
          bodies, interrupts, hidx, failedAt, err, childStdout, stdout, stderr,
          exitCode>>

(***************************************************************************)
(* Bounds of the model.                                                    *)
(***************************************************************************)
\* longest response body, in bytes
MaxBody == 2
\* length of the read buffer (8 * 1024 in the source, scaled down)
BufLen == 2
\* Interrupted reads the environment may inject per response
MaxInterrupts == 2
\* lines of a recipe in SetSpec
MaxLines == 3

(***************************************************************************)
(* Text helpers.                                                           *)
(***************************************************************************)
NL == "\n"

Max(S) == CHOOSE x \in S : \A y \in S : y <= x

Min(S) == CHOOSE x \in S : \A y \in S : x <= y

RECURSIVE Concat(_)
\* concatenation of a sequence of texts
Concat(ss) == IF ss = <<>> THEN <<>> ELSE Head(ss) \o Concat(Tail(ss))

RECURSIVE Join(_, _)
\* [String]::join
Join(ss, sep) ==
    IF ss = <<>> THEN <<>>
    ELSE IF Len(ss) = 1 THEN ss[1]
    ELSE ss[1] \o sep \o Join(Tail(ss), sep)

\* " ".repeat(n)
Spaces(n) == [i \in 1..n |-> " "]

RECURSIVE SplitLines(_)
\* the lines of a text, split at every line break
SplitLines(t) ==
    LET brk == {i \in 1..Len(t) : t[i] = NL}
    IN  IF brk = {} THEN <<t>>
        ELSE <<SubSeq(t, 1, Min(brk) - 1)>>
                 \o SplitLines(SubSeq(t, Min(brk) + 1, Len(t)))

(***************************************************************************)
(* Pkgbuild: the regex (.+)=(\([^\)]+\)|.+) and set().                     *)
(*                                                                         *)
(* The regex crate returns the leftmost match, and among the matches at    *)
(* one start the one a backtracking engine finds first: a greedy group 1,  *)
(* then the parenthesised alternative before the rest-of-line one.  `.`    *)
(* matches every character except a line break; [^\)] matches every        *)
(* character except `)`, line breaks included.                             *)
(***************************************************************************)
\* last index of the run of `.` characters that starts at s (s-1: empty run)
LineEnd(t, s) ==
    LET brk == {i \in s..Len(t) : t[i] = NL}
    IN  IF brk = {} THEN Len(t) ELSE Min(brk) - 1

\* The match of the regex that starts exactly at index s, if there is one:
\* group 1 is t[s..eq-1], group 2 is t[eq+1..end].  Group 1 is greedy, so eq
\* is the last `=` of the line that leaves group 2 a character to match.
MatchAt(t, s) ==
    LET le == LineEnd(t, s)
        eqs == {e \in (s + 1)..(le - 1) : t[e] = "="}
        e == IF eqs = {} THEN 0 ELSE Max(eqs)
        close == {q \in (e + 2)..Len(t) : t[q] = ")"}
        paren == /\ eqs # {}
                 /\ t[e + 1] = "("
                 /\ close # {}
                 /\ Min(close) >= e + 3
    IN  [found |-> eqs # {},
         eq |-> e,
         end |-> IF paren THEN Min(close) ELSE le]

\* the closure with the key test inverted
ReplacementInverted(g1, g2, k, v) ==
    g1 \o <<"=">> \o (IF g1 # k THEN v ELSE g2)

\* the closure given to replace_all: format!("{}={}", caps[1], ...)
Replacement(g1, g2, k, v) ==
    g1 \o <<"=">> \o (IF g1 = k THEN v ELSE g2)

RECURSIVE ReplaceAll(_, _, _, _)
\* Regex::replace_all from index s on: every non-overlapping match, leftmost
\* first, is replaced; the text between matches is copied.
ReplaceAll(t, s, k, v) ==
    IF s > Len(t) THEN <<>>
    ELSE LET m == MatchAt(t, s)
         IN  IF m.found
             THEN Replacement(SubSeq(t, s, m.eq - 1),
                              SubSeq(t, m.eq + 1, m.end), k, v)
                      \o ReplaceAll(t, m.end + 1, k, v)
             ELSE <<t[s]>> \o ReplaceAll(t, s + 1, k, v)

\* Pkgbuild::set: the new content (Cow::Borrowed leaves it as it was, which is
\* what replacing no match yields)
PkgbuildSet(t, k, v) == ReplaceAll(t, 1, k, v)

(***************************************************************************)
(* The inputs of a run.                                                    *)
(***************************************************************************)
\* "pkgver"
PKGVER == <<"p", "k", "g", "v", "e", "r">>

\* contents of ./PKGBUILD
Recipes ==
    { <<"p", "k", "g", "n", "a", "m", "e", "=", "f", "o", "o", "\n", "p", "k", "g", "v", "e", "r", "=", "1", ".", "0", "\n", "p", "k", "g", "r", "e", "l", "=", "1", "\n">>,
      <<"p", "k", "g", "v", "e", "r", "=", "1", ".", "0", "\n", "m", "d", "5", "s", "u", "m", "s", "=", "(", "'", "x", "'", ")", "\n">> }

\* the command line's positional argument
NewVersions == { <<"2", ".", "0">> }

\* the names Metadata::digests recognises, in the order of its match arms
Recognized == <<"md5", "sha1", "sha224", "sha256", "sha384", "sha512">>

IsRecognized(h) == \E i \in 1..Len(Recognized) : Recognized[i] = h

\* a hash name as text, for format!("{}sums", hash_name)
NameChars(h) ==
    CASE h = "md5" -> <<"m", "d", "5">>
      [] h = "sha1" -> <<"s", "h", "a", "1">>
      [] h = "sha224" -> <<"s", "h", "a", "2", "2", "4">>
      [] h = "sha256" -> <<"s", "h", "a", "2", "5", "6">>
      [] h = "sha384" -> <<"s", "h", "a", "3", "8", "4">>
      [] h = "sha512" -> <<"s", "h", "a", "5", "1", "2">>
      [] OTHER -> <<"c", "r", "c", "3", "2">>

SourceA == [filename |-> "a.tar.gz", url |-> "http://h/a.tar.gz"]

SourceB == [filename |-> "b.patch", url |-> "http://h/b.patch"]

FileNames == {SourceA.filename, SourceB.filename}

\* the `sources` lists the child may print; the last one names a file twice
SourceLists ==
    { <<>>, <<SourceA>>, <<SourceB, SourceA>>,
      <<SourceA, [filename |-> "a.tar.gz", url |-> "http://h/a2.tar.gz"]>> }

\* the `hashes` lists the child may print
HashLists ==
    { <<>>, <<"md5">>, <<"sha1", "md5">>, <<"sha256", "sha256">>,
      <<"crc32">>, <<"md5", "crc32">> }

\* the documents serde_json decodes into Metadata
MetadataDocs == [sources : SourceLists, hashes : HashLists]

Bytes == {0, 171}

\* the byte sequences of length 1..n
RECURSIVE Chunks(_)
Chunks(n) ==
    IF n = 0 THEN {}
    ELSE LET shorter == Chunks(n - 1) \cup {<<>>}
         IN  {Append(c, b) : c \in shorter, b \in Bytes} \cup Chunks(n - 1)

(***************************************************************************)
(* Digest engines.  An engine's state is its logical input, the bytes      *)
(* absorbed since it was created or reset; the digest itself stands in for *)
(* the md5/sha1/sha2 crates with a one-byte hash seeded per algorithm.     *)
(***************************************************************************)
Seed(h) ==
    IF IsRecognized(h)
    THEN CHOOSE i \in 1..Len(Recognized) : Recognized[i] = h
    ELSE 0

RECURSIVE Fold(_, _)
Fold(acc, data) ==
    IF data = <<>> THEN acc
    ELSE Fold((acc * 31 + Head(data) + 1) % 256, Tail(data))

\* DynDigest::result_reset: the raw digest of the absorbed bytes
DigestResult(h, data) == <<Fold(Seed(h) * 17, data)>>

HexDigits == <<"0", "1", "2", "3", "4", "5", "6", "7", "8", "9", "a", "b", "c", "d", "e", "f">>

RECURSIVE HexEncode(_)
\* hex::encode: two lowercase digits per byte
HexEncode(bs) ==
    IF bs = <<>> THEN <<>>
    ELSE <<HexDigits[(Head(bs) \div 16) + 1], HexDigits[(Head(bs) % 16) + 1]>>
             \o HexEncode(Tail(bs))

(***************************************************************************)
(* The run: main() and run().                                              *)
(***************************************************************************)
\* Option::None of the child's exit status
NoStatus == "none"

ExitStatuses == {"success", "failure"}

\* no Metadata decoded yet
NoMetadata == [none |-> TRUE]

\* the child's standard output: whether serde_json decodes it, and into what
NoOutput == [decodes |-> FALSE, doc |-> NoMetadata]

Outputs == {NoOutput} \cup [decodes : {TRUE}, doc : MetadataDocs]

NoError == <<>>

\* the process has not exited
Running == <<>>

\* a cell of the buffer that MaybeUninit::uninit() left unwritten: no byte
Uninit == 256

\* a file of the working directory that does not exist
Absent == [exists |-> FALSE, data |-> <<>>]

\* what every variable but pc, new_version, orig and content starts as
Fresh ==
    /\ setLog = <<>>
    /\ script = "absent"
    /\ child = "none"
    /\ childStatus = NoStatus
    /\ childStdout = NoOutput
    /\ metadata = NoMetadata
    /\ digests = <<>>
    /\ digest_hashes = <<>>
    /\ idx = 0
    /\ hidx = 0
    /\ requests = <<>>
    /\ fs = [f \in FileNames |-> Absent]
    /\ buf = [i \in 1..BufLen |-> Uninit]
    /\ body = <<>>
    /\ bodies = <<>>
    /\ interrupts = 0
    /\ failedAt = 0
    /\ err = NoError
    /\ stdout = <<>>
    /\ stderr = <<>>
    /\ exitCode = Running

Init ==
    /\ pc = "start"
    /\ new_version \in NewVersions
    /\ orig \in Recipes
    /\ content = <<>>
    /\ Fresh

\* TempPath::drop: the file is removed if it was created
DropScript(s) == IF s = "absent" THEN s ELSE "deleted"

\* `?` on an Err: run() returns it to main()
ReturnErr(e) ==
    /\ pc' = "run_err"
    /\ err' = e

\* a panic (unwrap() on an Err, panic!): the thread starts to unwind
PanicWith(msg) ==
    /\ pc' = "panic"
    /\ err' = msg

\* Pkgbuild::new (line 113): read_to_string("PKGBUILD")
PkgbuildNew ==
    /\ pc = "start"
    /\ \/ /\ content' = orig
          /\ pc' = "set_pkgver"
          /\ err' = err
       \/ /\ ReturnErr(<<"io", "PKGBUILD">>)
          /\ content' = content
    /\ UNCHANGED <<new_version, orig, setLog, script, child, childStatus,
                   metadata, digests, digest_hashes, idx, requests, fs, buf,
                   body, bodies, interrupts, hidx, failedAt, childStdout,
                   stdout, stderr, exitCode>>

\* pkgbuild.set("pkgver", &opt.new_version) (line 114)
SetPkgver ==
    /\ pc = "set_pkgver"
    /\ content' = PkgbuildSet(content, PKGVER, new_version)
    /\ setLog' = Append(setLog, [k |-> PKGVER, v |-> new_version])
    /\ pc' = "extract_new"
    /\ UNCHANGED <<new_version, orig, script, child, childStatus, metadata,
                   digests, digest_hashes, idx, requests, fs, buf, body,
                   bodies, interrupts, hidx, failedAt, err, childStdout,
                   stdout, stderr, exitCode>>

\* ExtractPkgbuild::new: create the temporary file and write the script to it
ExtractPkgbuildNew ==
    /\ pc = "extract_new"
    /\ \/ /\ script' = "complete"
          /\ pc' = "spawn"
          /\ err' = err
       \/ /\ ReturnErr(<<"io", "tempfile">>)
          /\ script' = script
       \/ /\ ReturnErr(<<"io", "write script">>)
          /\ script' = DropScript("partial")
    /\ UNCHANGED <<new_version, content, orig, setLog, child, childStatus,
                   metadata, digests, digest_hashes, idx, requests, fs, buf,
                   body, bodies, interrupts, hidx, failedAt, childStdout,
                   stdout, stderr, exitCode>>

\* ExtractPkgbuild::run, Command::spawn (lines 98-102).  On Err the temporary
\* ExtractPkgbuild of line 115 is dropped as run() returns.
Spawn ==
    /\ pc = "spawn"
    /\ \/ /\ child' = "running"
          /\ pc' = "write_stdin"
          /\ UNCHANGED <<script, err>>
       \/ /\ ReturnErr(<<"io", "spawn">>)
          /\ script' = DropScript(script)
          /\ child' = child
    /\ UNCHANGED <<new_version, content, orig, setLog, childStatus, metadata,
                   digests, digest_hashes, idx, requests, fs, buf, body,
                   bodies, interrupts, hidx, failedAt, childStdout, stdout,
                   stderr, exitCode>>

\* stdin.write_all(input)? (lines 103-106).  On Err the Child is dropped
\* without being waited for: it may or may not have exited.
WriteStdin ==
    /\ pc = "write_stdin"
    /\ \/ /\ pc' = "wait"
          /\ UNCHANGED <<script, child, childStatus, err>>
       \/ /\ ReturnErr(<<"io", "write stdin">>)
          /\ script' = DropScript(script)
          /\ \/ UNCHANGED <<child, childStatus>>
             \/ /\ child' = "exited"
                /\ childStatus' \in ExitStatuses
    /\ UNCHANGED <<new_version, content, orig, setLog, metadata, digests,
                   digest_hashes, idx, requests, fs, buf, body, bodies,
                   interrupts, hidx, failedAt, childStdout, stdout, stderr,
                   exitCode>>

\* child.wait_with_output()? (line 107): the child has exited, with any
\* status and any standard output
WaitWithOutput ==
    /\ pc = "wait"
    /\ child' = "exited"
    /\ childStatus' \in ExitStatuses
    /\ \/ /\ childStdout' \in Outputs
          /\ pc' = "decode"
          /\ UNCHANGED <<script, err>>
       \/ /\ ReturnErr(<<"io", "wait">>)
          /\ script' = DropScript(script)
          /\ childStdout' = childStdout
    /\ UNCHANGED <<new_version, content, orig, setLog, metadata, digests,
                   digest_hashes, idx, requests, fs, buf, body, bodies,
                   interrupts, hidx, failedAt, stdout, stderr, exitCode>>

\* serde_json::from_slice(&output.stdout).unwrap() (line 108), and on success
\* the end of the statement of line 115, which drops the ExtractPkgbuild
Decode ==
    /\ pc = "decode"
    /\ IF childStdout.decodes
       THEN /\ metadata' = childStdout.doc
            /\ script' = DropScript(script)
            /\ pc' = "digests"
            /\ err' = err
       ELSE /\ PanicWith(<<"unwrap on Err", "serde_json">>)
            /\ UNCHANGED <<metadata, script>>
    /\ UNCHANGED <<new_version, content, orig, setLog, child, childStatus,
                   digests, digest_hashes, idx, requests, fs, buf, body,
                   bodies, interrupts, hidx, failedAt, childStdout, stdout,
                   stderr, exitCode>>

\* only the head of the list checked against the recognised names
FirstUnsupportedHead(hashes) ==
    IF hashes # <<>> /\ ~IsRecognized(hashes[1]) THEN 1 ELSE 0

\* the first name Metadata::digests does not recognise, 0 if it knows all
FirstUnsupported(hashes) ==
    LET bad == {i \in 1..Len(hashes) : ~IsRecognized(hashes[i])}
    IN  IF bad = {} THEN 0 ELSE Min(bad)

\* metadata.digests() and vec![Vec::new(); digests.len()] (lines 116-117)
MetadataDigests ==
    /\ pc = "digests"
    /\ LET bad == FirstUnsupported(metadata.hashes)
       IN  IF bad = 0
           THEN /\ digests' = [i \in 1..Len(metadata.hashes) |-> <<>>]
                /\ digest_hashes' = [i \in 1..Len(metadata.hashes) |-> <<>>]
                /\ idx' = 1
                /\ pc' = "for_source"
                /\ err' = err
           ELSE /\ PanicWith(<<"Unsupported hash", metadata.hashes[bad]>>)
                /\ UNCHANGED <<digests, digest_hashes, idx>>
    /\ UNCHANGED <<new_version, content, orig, setLog, script, child,
                   childStatus, metadata, requests, fs, buf, body, bodies,
                   interrupts, hidx, failedAt, childStdout, stdout, stderr,
                   exitCode>>

\* the source the loop of line 118 is at
Source == metadata.sources[idx]

\* reqwest::get(&source.url).unwrap().error_for_status().unwrap()
\* (lines 118-123), after the progress line of line 119
Request ==
    /\ pc = "for_source"
    /\ idx <= Len(metadata.sources)
    /\ stdout' = Append(stdout, [kind |-> "progress",
                                 text |-> <<Source.url, Source.filename>>])
    /\ requests' = Append(requests, Source.url)
    /\ body' = <<>>
    /\ interrupts' = 0
    /\ \/ /\ pc' = "create"
          /\ UNCHANGED <<err, failedAt>>
       \/ /\ PanicWith(<<"unwrap on Err", "reqwest transfer">>)
          /\ failedAt' = idx
       \/ /\ PanicWith(<<"unwrap on Err", "reqwest status">>)
          /\ failedAt' = idx
    /\ UNCHANGED <<new_version, content, orig, setLog, script, child,
                   childStatus, metadata, digests, digest_hashes, idx, fs,
                   buf, bodies, hidx, childStdout, stderr, exitCode>>

\* File::create(&source.filename)? and the fresh buffer (lines 125-126)
FileCreate ==
    /\ pc = "create"
    /\ \/ /\ fs' = [fs EXCEPT ![Source.filename] =
                                  [exists |-> TRUE, data |-> <<>>]]
          /\ buf' = [i \in 1..BufLen |-> Uninit]
          /\ pc' = "read"
          /\ UNCHANGED <<err, failedAt>>
       \/ /\ ReturnErr(<<"io", "create">>)
          /\ failedAt' = idx
          /\ UNCHANGED <<fs, buf>>
    /\ UNCHANGED <<new_version, content, orig, setLog, script, child,
                   childStatus, metadata, digests, digest_hashes, idx,
                   requests, body, bodies, interrupts, hidx, childStdout,
                   stdout, stderr, exitCode>>

\* the slice handed on with the whole buffer instead of its first len cells
BufReadWhole(b, len) == b

\* std::slice::from_raw_parts(buf.as_ptr(), len) (line 136)
BufRead(b, len) == SubSeq(b, 1, len)

\* the engines after digest.input(&buf_read) on each (lines 138-140)
DigestsInput(ds, data) == [i \in 1..Len(ds) |-> ds[i] \o data]

\* the file's record after one more write
Written(f, data) == [exists |-> TRUE, data |-> f.data \o data]

\* response.read returned Ok(len), len > 0 (lines 128-140): the chunk is in
\* the first len cells of buf; it is written to the file and absorbed by
\* every engine, unless write_all fails after writing part of it
ReadChunk ==
    /\ pc = "read"
    /\ \E chunk \in Chunks(IF BufLen < MaxBody - Len(body)
                           THEN BufLen ELSE MaxBody - Len(body)) :
          LET len == Len(chunk)
              filled == [i \in 1..BufLen |->
                            IF i <= len THEN chunk[i] ELSE buf[i]]
              buf_read == BufRead(filled, len)
          IN  /\ buf' = filled
              /\ body' = body \o chunk
              /\ \/ /\ fs' = [fs EXCEPT ![Source.filename] =
                                            Written(@, buf_read)]
                    /\ digests' = DigestsInput(digests, buf_read)
                    /\ UNCHANGED <<pc, err, failedAt>>
                 \/ /\ \E n \in 0..(Len(buf_read) - 1) :
                          fs' = [fs EXCEPT ![Source.filename] =
                                    Written(@, SubSeq(buf_read, 1, n))]
                    /\ ReturnErr(<<"io", "write">>)
                    /\ failedAt' = idx
                    /\ digests' = digests
    /\ UNCHANGED <<new_version, content, orig, setLog, script, child,
                   childStatus, metadata, digest_hashes, idx, requests,
                   bodies, interrupts, hidx, childStdout, stdout, stderr,
                   exitCode>>

\* response.read returned Err of kind Interrupted (line 133): continue
ReadInterrupted ==
    /\ pc = "read"
    /\ interrupts < MaxInterrupts
    /\ interrupts' = interrupts + 1
    /\ UNCHANGED <<pc, new_version, content, orig, setLog, script, child,
                   childStatus, metadata, digests, digest_hashes, idx,
                   requests, fs, buf, body, bodies, hidx, failedAt, err,
                   childStdout, stdout, stderr, exitCode>>

\* the error arm leaving the loop with `break` instead of returning
ReadErrorBreaks ==
    /\ pc = "read"
    /\ pc' = "push"
    /\ failedAt' = idx
    /\ UNCHANGED <<new_version, content, orig, setLog, script, child,
                   childStatus, metadata, digests, digest_hashes, idx,
                   requests, fs, buf, body, bodies, interrupts, hidx, err,
                   childStdout, stdout, stderr, exitCode>>

\* response.read returned any other Err (line 134)
ReadError ==
    /\ pc = "read"
    /\ ReturnErr(<<"io", "read">>)
    /\ failedAt' = idx
    /\ UNCHANGED <<new_version, content, orig, setLog, script, child,
                   childStatus, metadata, digests, digest_hashes, idx,
                   requests, fs, buf, body, bodies, interrupts, hidx,
                   childStdout, stdout, stderr, exitCode>>

\* response.read returned Ok(0) (line 131): end of the body, break
ReadEof ==
    /\ pc = "read"
    /\ pc' = "push"
    /\ UNCHANGED <<new_version, content, orig, setLog, script, child,
                   childStatus, metadata, digests, digest_hashes, idx,
                   requests, fs, buf, body, bodies, interrupts, hidx,
                   failedAt, err, childStdout, stdout, stderr, exitCode>>

\* the engine after result_reset(): its initial state
ResultReset(d) == <<>>

\* hashes.push(hex::encode(digest.result_reset())) over the zip of digests
\* and digest_hashes (lines 143-145)
Pushed(dh, hashes, ds) ==
    [i \in 1..Len(dh) |->
        Append(dh[i], HexEncode(DigestResult(hashes[i], ds[i])))]

\* lines 143-146: the end of one iteration of the loop over the sources
PushDigests ==
    /\ pc = "push"
    /\ digest_hashes' = Pushed(digest_hashes, metadata.hashes, digests)
    /\ digests' = [i \in 1..Len(digests) |-> ResultReset(digests[i])]
    /\ bodies' = Append(bodies, body)
    /\ idx' = idx + 1
    /\ pc' = "for_source"
    /\ UNCHANGED <<new_version, content, orig, setLog, script, child,
                   childStatus, metadata, requests, fs, buf, body,
                   interrupts, hidx, failedAt, err, childStdout, stdout,
                   stderr, exitCode>>

\* the loop over the sources is over
SourcesDone ==
    /\ pc = "for_source"
    /\ idx > Len(metadata.sources)
    /\ hidx' = 1
    /\ pc' = "set_sums"
    /\ UNCHANGED <<new_version, content, orig, setLog, script, child,
                   childStatus, metadata, digests, digest_hashes, idx,
                   requests, fs, buf, body, bodies, interrupts, failedAt,
                   err, childStdout, stdout, stderr, exitCode>>

\* format!("{}sums", hash_name) (line 148)
HashSum(h) == NameChars(h) \o <<"s", "u", "m", "s">>

\* the value with the continuation lines indented by hashsum.len() only
RenderSumsNarrow(hashsum, hashes) ==
    <<"(", "'">>
        \o Join(hashes, <<"'", NL>> \o Spaces(Len(hashsum)) \o <<"'">>)
        \o <<"'", ")">>

\* format!("('{}')", hashes.join(&format!("'\n{}  '",
\*                                 " ".repeat(hashsum.len())))) (lines 151-154)
RenderSums(hashsum, hashes) ==
    <<"(", "'">>
        \o Join(hashes, <<"'", NL>> \o Spaces(Len(hashsum))
                            \o <<" ", " ", "'">>)
        \o <<"'", ")">>

\* one iteration of the loop of lines 147-156
SetSums ==
    /\ pc = "set_sums"
    /\ hidx <= Len(metadata.hashes)
    /\ LET hashsum == HashSum(metadata.hashes[hidx])
           value == RenderSums(hashsum, digest_hashes[hidx])
       IN  /\ content' = PkgbuildSet(content, hashsum, value)
           /\ setLog' = Append(setLog, [k |-> hashsum, v |-> value])
    /\ hidx' = hidx + 1
    /\ UNCHANGED <<pc, new_version, orig, script, child, childStatus,
                   metadata, digests, digest_hashes, idx, requests, fs, buf,
                   body, bodies, interrupts, failedAt, err, childStdout,
                   stdout, stderr, exitCode>>

\* println!("{}", pkgbuild.content) and Ok(()) (lines 157-165)
PrintRecipe ==
    /\ pc = "set_sums"
    /\ hidx > Len(metadata.hashes)
    /\ stdout' = Append(stdout, [kind |-> "recipe", text |-> content])
    /\ pc' = "run_ok"
    /\ UNCHANGED <<new_version, content, orig, setLog, script, child,
                   childStatus, metadata, digests, digest_hashes, idx,
                   requests, fs, buf, body, bodies, interrupts, hidx,
                   failedAt, err, childStdout, stderr, exitCode>>

\* main() after run() returned Ok: exit code 0
MainOk ==
    /\ pc = "run_ok"
    /\ exitCode' = <<0>>
    /\ pc' = "exited"
    /\ UNCHANGED <<new_version, content, orig, setLog, script, child,
                   childStatus, metadata, digests, digest_hashes, idx,
                   requests, fs, buf, body, bodies, interrupts, hidx,
                   failedAt, err, childStdout, stdout, stderr>>

\* main() after run() returned Err(e) (lines 169-172)
MainErr ==
    /\ pc = "run_err"
    /\ stderr' = Append(stderr, [prefix |-> "Error: ", message |-> err])
    /\ exitCode' = <<1>>
    /\ pc' = "exited"
    /\ UNCHANGED <<new_version, content, orig, setLog, script, child,
                   childStatus, metadata, digests, digest_hashes, idx,
                   requests, fs, buf, body, bodies, interrupts, hidx,
                   failedAt, err, childStdout, stdout>>

\* A panic in the main thread: the panic hook prints its message, the stack
\* unwinds (dropping the ExtractPkgbuild if the panic came from its run) and
\* the process exits with code 101.
PanicUnwind ==
    /\ pc = "panic"
    /\ stderr' = Append(stderr, [prefix |-> "thread 'main' panicked at ",
                                 message |-> err])
    /\ script' = DropScript(script)
    /\ exitCode' = <<101>>
    /\ pc' = "exited"
    /\ UNCHANGED <<new_version, content, orig, setLog, child, childStatus,
                   metadata, digests, digest_hashes, idx, requests, fs, buf,
                   body, bodies, interrupts, hidx, failedAt, err,
                   childStdout, stdout>>

Next ==
    \/ PkgbuildNew
    \/ SetPkgver
    \/ ExtractPkgbuildNew
    \/ Spawn
    \/ WriteStdin
    \/ WaitWithOutput
    \/ Decode
    \/ MetadataDigests
    \/ Request
    \/ FileCreate
    \/ ReadChunk
    \/ ReadInterrupted
    \/ ReadError
    \/ ReadEof
    \/ PushDigests
    \/ SourcesDone
    \/ SetSums
    \/ PrintRecipe
    \/ MainOk
    \/ MainErr
    \/ PanicUnwind

Spec == Init /\ [][Next]_vars

(***************************************************************************)
(* SetSpec: Pkgbuild::set on its own.  A recipe is any text of up to       *)
(* MaxLines lines drawn from LinePool; two calls of set are applied to it. *)
(***************************************************************************)
\* lines of a recipe, each with its line break
LinePool ==
    { <<"a", "=", "1", "\n">>, <<"b", "=", "2", "\n">>, <<"c", "=", "3", "\n">>,
      <<"a", "=", "1", "#", "=", "c", "\n">>, <<"b", "=", "(", "1", "\n">>, <<"1", ")", "\n">>,
      <<"b", "=", "\n">> }

RecipeTexts ==
    {Concat(ls) : ls \in UNION {[1..n -> LinePool] : n \in 1..MaxLines}}

SetKeys == { <<"a">>, <<"b">> }

SetValues ==
    { <<"9">>, <<>>, <<"=", "9">>, <<"(", "8">>, <<"8", ")">>,
      <<"9", "\n", "b", "=", "7">> }

SetInit ==
    /\ pc = "set"
    /\ new_version = <<>>
    /\ content \in RecipeTexts
    /\ orig = content
    /\ Fresh

\* pkgbuild.set(k, v), at most twice
ApplySet ==
    /\ pc = "set"
    /\ Len(setLog) < 2
    /\ \E k \in SetKeys, v \in SetValues :
          /\ content' = PkgbuildSet(content, k, v)
          /\ setLog' = Append(setLog, [k |-> k, v |-> v])
    /\ UNCHANGED <<pc, new_version, orig, script, child, childStatus,
                   metadata, digests, digest_hashes, idx, requests, fs, buf,
                   body, bodies, interrupts, hidx, failedAt, err, childStdout,
                   stdout, stderr, exitCode>>

SetNext == ApplySet

SetSpec == SetInit /\ [][SetNext]_vars

(***************************************************************************)
(* Properties.                                                             *)
(***************************************************************************)
\* the positions at which run() is past the extraction of the metadata
AfterExtract == {"digests", "for_source", "create", "read", "push",
                 "set_sums", "run_ok"}

\* the recipe text has been printed on standard output
RecipePrinted == \E n \in 1..Len(stdout) : stdout[n].kind = "recipe"

\* the n-th element of a set of numbers, in increasing order
Nth(S, n) == CHOOSE x \in S : Cardinality({y \in S : y < x}) = n - 1

\* the single-quoted entries of a rendered checksum list, in order
QuotedEntries(t) ==
    LET q == {i \in 1..Len(t) : t[i] = "'"}
    IN  [n \in 1..(Cardinality(q) \div 2) |->
            SubSeq(t, Nth(q, 2 * n - 1) + 1, Nth(q, 2 * n) - 1)]

\* the hex digest the source fetched j-th must get under algorithm h
Expected(h, j) == HexEncode(DigestResult(h, bodies[j]))

\* C1: when the read loop of a source ends, the file holds exactly the bytes
\* the response yielded and every engine has absorbed exactly those bytes;
\* and every digest pushed so far is the digest of its own source's body.
C1_StreamedExactly ==
    /\ pc = "push" =>
          /\ fs[Source.filename].data = body
          /\ \A i \in 1..Len(digests) : digests[i] = body
    /\ \A i \in 1..Len(digest_hashes) :
          /\ Len(digest_hashes[i]) = Len(bodies)
          /\ \A j \in 1..Len(bodies) :
                digest_hashes[i][j] = Expected(metadata.hashes[i], j)

\* the second source's loop ends after two Interrupted reads, two chunks of
\* different bytes and a first source that was not empty
C1_Witness ==
    /\ pc = "push"
    /\ idx = 2
    /\ interrupts = 2
    /\ Len(body) = 2
    /\ body[1] # body[2]
    /\ buf[2] = Uninit
    /\ bodies[1] # <<>>
    /\ Len(digests) = 2

\* C2 (as claimed): the sources are requested in their declared order, and
\* the list rendered for each algorithm has one quoted entry per source, the
\* j-th being the digest of the j-th source.
C2_OneEntryPerSource ==
    /\ \A j \in 1..Len(requests) : requests[j] = metadata.sources[j].url
    /\ \A n \in 2..Len(setLog) :
          LET entries == QuotedEntries(setLog[n].v)
          IN  /\ setLog[n].k = HashSum(metadata.hashes[n - 1])
              /\ Len(entries) = Len(metadata.sources)
              /\ \A j \in 1..Len(entries) :
                    entries[j] = Expected(metadata.hashes[n - 1], j)

\* C3: a hash name outside the recognised set, at any position, makes the run
\* fail before any request is issued and before any file is created.
C3_UnknownAlgorithmFailsFirst ==
    (/\ metadata # NoMetadata
     /\ \E i \in 1..Len(metadata.hashes) : ~IsRecognized(metadata.hashes[i]))
    => /\ requests = <<>>
       /\ \A f \in FileNames : ~fs[f].exists
       /\ pc \in {"digests", "panic", "exited"}
       /\ pc = "exited" => exitCode # <<0>>

\* the unknown name is the second of the list and there are sources to fetch
C3_Witness ==
    /\ pc = "exited"
    /\ metadata # NoMetadata
    /\ Len(metadata.hashes) = 2
    /\ IsRecognized(metadata.hashes[1])
    /\ ~IsRecognized(metadata.hashes[2])
    /\ Len(metadata.sources) = 2
    /\ exitCode = <<101>>

\* C4 (as claimed): every failed run ends with exactly one `Error: <message>`
\* line on standard error and a non-zero exit code.
C4_EveryFailureIsErrorLine ==
    (pc = "exited" /\ err # NoError)
    => /\ exitCode # <<0>>
       /\ Len(stderr) = 1
       /\ stderr[1].prefix = "Error: "

\* C5 (as claimed): a child that exits with a non-zero status yields no
\* Metadata: nothing is decoded, fetched or printed.
C5_ChildFailureIsError ==
    childStatus = "failure"
    => /\ metadata = NoMetadata
       /\ pc \notin AfterExtract
       /\ requests = <<>>
       /\ ~RecipePrinted

\* C6: once the fetch of source j has failed, no later source is requested,
\* no checksum field is set and the recipe is never printed; the recipe is
\* printed only after every source was fetched to end-of-stream.
C6_StopOnFirstFailure ==
    /\ failedAt # 0 =>
          /\ Len(requests) = failedAt
          /\ Len(setLog) = 1
          /\ ~RecipePrinted
          /\ pc \in {"run_err", "panic", "exited"}
          /\ pc = "exited" => exitCode # <<0>>
    /\ RecipePrinted =>
          /\ failedAt = 0
          /\ Len(bodies) = Len(metadata.sources)
          /\ Len(requests) = Len(metadata.sources)

\* the first of two sources failed, with checksum fields to set, and the run
\* is over
C6_Witness ==
    /\ pc = "exited"
    /\ failedAt = 1
    /\ Len(metadata.sources) = 2
    /\ Len(metadata.hashes) = 2
    /\ err = <<"io", "read">>

\* the text before the first `=` of a line
KeyOf(line) ==
    SubSeq(line, 1, Min({i \in 1..Len(line) : line[i] = "="}) - 1)

\* a line `key=value` with a key and a value
IsEntry(line) ==
    LET eqs == {i \in 1..Len(line) : line[i] = "="}
    IN  eqs # {} /\ Min(eqs) > 1 /\ Min(eqs) < Len(line)

HasParen(t) == \E i \in 1..Len(t) : t[i] \in {"(", ")"}

HasBreak(t) == \E i \in 1..Len(t) : t[i] = NL

\* C7 (as claimed), on recipes without parentheses and one-line values: after
\* set(k, v), every entry whose key (up to the first `=`) is k reads `k=v`.
C7_SetRewritesEveryEntry ==
    (/\ pc = "set"
     /\ Len(setLog) = 1
     /\ ~HasParen(orig)
     /\ ~HasBreak(setLog[1].v))
    => LET before == SplitLines(orig)
           after == SplitLines(content)
       IN  \A i \in 1..Len(before) :
              (IsEntry(before[i]) /\ KeyOf(before[i]) = setLog[1].k)
              => after[i] = setLog[1].k \o <<"=">> \o setLog[1].v

\* key k heads exactly one line of t
PresentOnce(t, k) ==
    LET lines == SplitLines(t)
    IN  Cardinality({i \in 1..Len(lines) :
                        /\ \E j \in 1..Len(lines[i]) : lines[i][j] = "="
                        /\ KeyOf(lines[i]) = k}) = 1

\* two calls of set with distinct keys, each present exactly once
TwoDistinctSets ==
    /\ pc = "set"
    /\ Len(setLog) = 2
    /\ setLog[1].k # setLog[2].k
    /\ PresentOnce(orig, setLog[1].k)
    /\ PresentOnce(orig, setLog[2].k)

\* the text the two calls yield when made in the other order
OtherOrder ==
    PkgbuildSet(PkgbuildSet(orig, setLog[2].k, setLog[2].v),
                setLog[1].k, setLog[1].v)

\* a value without line break or parenthesis
Plain(v) == ~HasBreak(v) /\ ~HasParen(v)

QuoteColumn(line) ==
    LET q == {i \in 1..Len(line) : line[i] = "'"}
    IN  IF q = {} THEN 0 ELSE Min(q)

\* C9: with two or more digests, the value set for `Asums` is `('d0'`, then
\* per further digest a line break, spaces and the quoted digest, then `)`,
\* the spaces putting every opening quote in the column of the first one on
\* the line `Asums=('d0'`.
C9_ContinuationAligned ==
    \A n \in 2..Len(setLog) :
       Len(metadata.sources) >= 2 =>
          LET h == metadata.hashes[n - 1]
              lines == SplitLines(setLog[n].k \o <<"=">> \o setLog[n].v)
              last == Len(metadata.sources)
              col == QuoteColumn(lines[1])
              close(j) == IF j = last THEN <<"'", ")">> ELSE <<"'">>
          IN  /\ Len(lines) = last
              /\ lines[1] = setLog[n].k \o <<"=", "(", "'">>
                                \o Expected(h, 1) \o close(1)
              /\ \A j \in 2..last :
                    /\ QuoteColumn(lines[j]) = col
                    /\ lines[j] = Spaces(col - 1) \o <<"'">>
                                      \o Expected(h, j) \o close(j)

\* a finished run that set two checksum fields of two digests each
C9_Witness ==
    /\ pc = "exited"
    /\ exitCode = <<0>>
    /\ Len(metadata.sources) = 2
    /\ Len(setLog) = 3
    /\ setLog[2].k # setLog[3].k
    /\ QuotedEntries(setLog[2].v)[1] # QuotedEntries(setLog[2].v)[2]

\* C10 (as claimed): the helper script exists, complete, for as long as the
\* child runs, and it is gone once run() is past the extraction or over.
C10_ScriptOutlivesChild ==
    /\ child = "running" => script = "complete"
    /\ pc \in AfterExtract => script = "deleted"
    /\ pc = "exited" => script \in {"absent", "deleted"}

=============================================================================
